---- MODULE Spec2Model ----
(***************************************************************************)
(* Model of mapadroid/mad_apk/apk_storage_db.py: APKStorageDatabase, the   *)
(* database-backed APK storage.  Callers are concurrent threads that call  *)
(* the public coroutines of one storage instance; the database behind dbc  *)
(* is the three tables filestore_meta, mad_apks and filestore_chunks.      *)
(***************************************************************************)
EXTENDS Integers, Sequences, FiniteSets, TLC

(* ------------------------------ bounds --------------------------------- *)
NumCallers == 2
MaxCalls == 2
MaxPayloadLen == 1

(* --------------------------- value domains ----------------------------- *)
Callers == 1..NumCallers
NoCaller == 0

Packages == {"pogo", "rgc"}
Archs == {"arm64_v8a"}
Versions == {"1.0", "2.0"}
Mimetypes == {"application/vnd.android.package-archive"}
(* One payload of every length up to the bound; its bytes are all different *)
Payloads == {[i \in 1..n |-> i] : n \in 0..MaxPayloadLen}

(* What callers save are releases: the content of a release determines its *)
(* version string.                                                         *)
VersionOf(data) == IF Len(data) % 2 = 0 THEN "1.0" ELSE "2.0"

CHUNK_MAX_SIZE == 2

(* The most calls to the database one upload makes: two inserts and one    *)
(* per chunk of the longest payload.                                       *)
MaxInserts == 2 + (MaxPayloadLen + CHUNK_MAX_SIZE - 1) \div CHUNK_MAX_SIZE

(* ------------------------------ database ------------------------------- *)
(* A database is [next_id, filestore_meta, mad_apks, filestore_chunks].    *)
(* filestore_chunks is a sequence: its order is the insertion order.       *)
generate_filename(package, architecture, version, mimetype) ==
    <<package, architecture, version, mimetype>>

EmptyDB ==
    [next_id |-> 1, filestore_meta |-> {}, mad_apks |-> {}, filestore_chunks |-> <<>>]

autoexec_insert_meta(db, filename, size, mimetype) ==
    [db EXCEPT !.next_id = db.next_id + 1,
               !.filestore_meta = db.filestore_meta \cup
                   {[filestore_id |-> db.next_id, filename |-> filename,
                     size |-> size, mimetype |-> mimetype]}]

autoexec_insert_apk(db, new_id, package, architecture, version) ==
    [db EXCEPT !.mad_apks =
        {r \in db.mad_apks : ~(r.usage = package /\ r.arch = architecture)} \cup
        {[filestore_id |-> new_id, usage |-> package, arch |-> architecture,
          version |-> version]}]

autoexec_insert_chunk(db, new_id, chunked_data) ==
    [db EXCEPT !.filestore_chunks =
        Append(db.filestore_chunks,
               [filestore_id |-> new_id, size |-> Len(chunked_data), data |-> chunked_data])]

(* data.getbuffer()[i * chunk_size:(i + 1) * chunk_size], i counted from 0 *)
Slice(data, lo, hi) ==
    LET a == IF lo < Len(data) THEN lo ELSE Len(data)
        b == IF hi < Len(data) THEN hi ELSE Len(data)
    IN IF b <= a THEN <<>> ELSE SubSeq(data, a + 1, b)

Split(data, chunk_size) ==
    [j \in 1..((Len(data) + chunk_size - 1) \div chunk_size) |->
        Slice(data, (j - 1) * chunk_size, j * chunk_size)]

RECURSIVE InsertChunks(_, _, _)
InsertChunks(db, new_id, chunks) ==
    IF chunks = <<>> THEN db
    ELSE InsertChunks(autoexec_insert_chunk(db, new_id, Head(chunks)), new_id, Tail(chunks))

(* Lines 82-108 of save_file: the metadata insert, the mad_apks upsert and *)
(* the chunk loop, then return True.  Each autoexec_insert is one call to  *)
(* the database and may raise; failAt is the number of the call that       *)
(* raises (metadata 1, mad_apks 2, chunks 3, 4, ...), 0 when none does.    *)
(* The rows inserted before the failing call stay.                         *)
upload(db, package, architecture, version, mimetype, data, failAt) ==
    LET new_id == db.next_id
        db1 == autoexec_insert_meta(db, generate_filename(package, architecture, version, mimetype),
                                    Len(data), mimetype)
        db2 == autoexec_insert_apk(db1, new_id, package, architecture, version)
        chunks == Split(data, CHUNK_MAX_SIZE)
        written == IF failAt >= 3 /\ failAt - 3 < Len(chunks) THEN failAt - 3 ELSE Len(chunks)
        db3 == InsertChunks(db2, new_id, SubSeq(chunks, 1, written))
    IN IF failAt = 1 THEN [raised |-> "DatabaseError", value |-> "None", db |-> db]
       ELSE IF failAt = 2 THEN [raised |-> "DatabaseError", value |-> "None", db |-> db1]
       ELSE IF written < Len(chunks) THEN [raised |-> "DatabaseError", value |-> "None", db |-> db3]
       ELSE [raised |-> "none", value |-> "True", db |-> db3]

(* Databases the storage can be constructed over: nothing stored, one      *)
(* artifact stored, and that artifact with its metadata row removed by     *)
(* another user of the database.                                           *)
StoredDB == upload(EmptyDB, "pogo", "arm64_v8a", "1.0",
                   "application/vnd.android.package-archive", <<1, 2, 3>>, 0).db

DanglingDB == [StoredDB EXCEPT !.filestore_meta = {}]

InitialDatabases == {EmptyDB, StoredDB, DanglingDB}

(* ------------------------- the public coroutines ----------------------- *)
(* An outcome is what a coroutine does to its caller and to the database:  *)
(* raised is the exception that leaves it ("none" when it returns), value  *)
(* is the returned value.                                                  *)
Raise(exception, db) == [raised |-> exception, value |-> "None", db |-> db]

(* delete_file, line 40: the argument list names `session`, which is       *)
(* neither a parameter, a local nor a module global, so evaluating it      *)
(* raises NameError before MadApkHelper.delete_file is called.             *)
delete_file_all_keys(db, package, architecture) ==
    [raised |-> "none", value |-> "True",
     db |-> [db EXCEPT !.mad_apks = {}, !.filestore_meta = {}, !.filestore_chunks = <<>>]]

delete_file_session_bound(db, package, architecture) ==
    LET ids == {r.filestore_id : r \in {x \in db.mad_apks :
                                           x.usage = package /\ x.arch = architecture}}
    IN [raised |-> "none", value |-> "True",
        db |-> [db EXCEPT
                  !.mad_apks = {r \in db.mad_apks : r.filestore_id \notin ids},
                  !.filestore_meta = {m \in db.filestore_meta : m.filestore_id \notin ids},
                  !.filestore_chunks = SelectSeq(db.filestore_chunks,
                                                 LAMBDA row : row.filestore_id \notin ids)]]

delete_file(db, package, architecture) == Raise("NameError", db)

(* get_current_version, line 44: the same unbound name.                    *)
get_current_version(db, package, architecture) == Raise("NameError", db)

(* get_current_package_info, line 56: the same unbound name.               *)
get_current_package_info(db, package) == Raise("NameError", db)

(* The try block of save_file, lines 80-108.                               *)
save_file_try_best_effort(db, package, architecture, version, mimetype, data, failAt) ==
    LET deleted == delete_file(db, package, architecture)
    IN upload(deleted.db, package, architecture, version, mimetype, data, failAt)

save_file_try(db, package, architecture, version, mimetype, data, failAt) ==
    LET deleted == delete_file(db, package, architecture)
    IN IF deleted.raised # "none"
       THEN deleted
       ELSE upload(deleted.db, package, architecture, version, mimetype, data, failAt)

(* The except clause of save_file, lines 109-111: a bare except, the       *)
(* exception is logged and the function returns False.                     *)
save_file_except_returns_true(exception) == "True"

save_file_except(exception) == "False"

(* ------------------------------- state --------------------------------- *)
VARIABLES
    db,          \* the tables behind self.dbc
    file_lock,   \* self.file_lock: owner and recursion count of the RLock
    pc,          \* per caller: where it is in its current call
    call,        \* per caller: the call it is making, with the database at call time
    exc,         \* per caller: the exception caught by save_file's except clause
    ret,         \* per caller: how its call ended
    calls,       \* number of calls started so far
    completed,   \* per key: number of save_file calls that have ended
    lastSave     \* per key: version and data of the save_file call that ended last

vars == <<db, file_lock, pc, call, exc, ret, calls, completed, lastSave>>

Keys == Packages \X Archs

NoCall == [name |-> "none", package |-> "", architecture |-> "", version |-> "",
           mimetype |-> "", data |-> <<>>, retry |-> FALSE, db0 |-> EmptyDB]
NoRet == [kind |-> "none", value |-> "None"]
NoSave == [version |-> "", mimetype |-> "", data |-> <<>>]

(* __init__, lines 28-31: a fresh RLock nobody holds, and the given dbc.   *)
Init ==
    /\ db \in InitialDatabases
    /\ file_lock = [owner |-> NoCaller, count |-> 0]
    /\ pc = [t \in Callers |-> "idle"]
    /\ call = [t \in Callers |-> NoCall]
    /\ exc = [t \in Callers |-> "none"]
    /\ ret = [t \in Callers |-> NoRet]
    /\ calls = 0
    /\ completed = [k \in Keys |-> 0]
    /\ lastSave = [k \in Keys |-> NoSave]

Enter(t, c, where) ==
    /\ pc[t] = "idle"
    /\ calls < MaxCalls
    /\ calls' = calls + 1
    /\ call' = [call EXCEPT ![t] = c]
    /\ pc' = [pc EXCEPT ![t] = where]
    /\ ret' = [ret EXCEPT ![t] = NoRet]
    /\ exc' = [exc EXCEPT ![t] = "none"]
    /\ UNCHANGED <<db, file_lock, completed, lastSave>>

Finish(t, outcome) ==
    /\ db' = outcome.db
    /\ pc' = [pc EXCEPT ![t] = "done"]
    /\ ret' = [ret EXCEPT ![t] =
                 IF outcome.raised # "none"
                 THEN [kind |-> "raise", value |-> outcome.raised]
                 ELSE [kind |-> "return", value |-> outcome.value]]

(* A caller starts save_file(package, architecture, version, mimetype, data, retry) *)
CallSaveFile(t) ==
    \E p \in Packages, a \in Archs, m \in Mimetypes, d \in Payloads, r \in BOOLEAN :
        Enter(t, [name |-> "save_file", package |-> p, architecture |-> a,
                  version |-> VersionOf(d),
                  mimetype |-> m, data |-> d, retry |-> r, db0 |-> db], "save_try")

SaveFileTryBlocks(t) ==
    /\ pc[t] = "save_try"
    /\ LET holder == t   \* save_file has taken a lock that is not re-entrant
       IN holder = NoCaller   \* and the delete_file it calls waits for it to be free
    /\ UNCHANGED vars

(* save_file, lines 80-108: the try block, up to its return True or to the *)
(* first exception.                                                        *)
SaveFileTry(t) ==
    /\ pc[t] = "save_try"
    /\ \E failAt \in 0..MaxInserts :
       LET c == call[t]
           out == save_file_try(db, c.package, c.architecture, c.version, c.mimetype, c.data,
                                failAt)
       IN IF out.raised # "none"
          THEN /\ db' = out.db
               /\ exc' = [exc EXCEPT ![t] = out.raised]
               /\ pc' = [pc EXCEPT ![t] = "save_except"]
               /\ UNCHANGED <<ret, completed, lastSave>>
          ELSE /\ Finish(t, out)
               /\ completed' = [completed EXCEPT ![<<c.package, c.architecture>>] = @ + 1]
               /\ lastSave' = [lastSave EXCEPT ![<<c.package, c.architecture>>] =
                                  [version |-> c.version, mimetype |-> c.mimetype, data |-> c.data]]
               /\ UNCHANGED exc
    /\ UNCHANGED <<file_lock, call, calls>>

SaveFileExceptRetries(t) ==
    /\ pc[t] = "save_except"
    /\ IF call[t].retry
       THEN /\ pc' = [pc EXCEPT ![t] = "save_try"]
            /\ exc' = [exc EXCEPT ![t] = "none"]
            /\ UNCHANGED <<db, ret, completed, lastSave>>
       ELSE /\ Finish(t, [raised |-> "none", value |-> save_file_except(exc[t]), db |-> db])
            /\ completed' = [completed EXCEPT ![<<call[t].package, call[t].architecture>>] = @ + 1]
            /\ lastSave' = [lastSave EXCEPT ![<<call[t].package, call[t].architecture>>] =
                               [version |-> call[t].version, mimetype |-> call[t].mimetype,
                                data |-> call[t].data]]
            /\ UNCHANGED exc
    /\ UNCHANGED <<file_lock, call, calls>>

(* save_file, lines 109-111: the except clause and the return False.       *)
SaveFileExcept(t) ==
    /\ pc[t] = "save_except"
    /\ LET c == call[t]
       IN /\ Finish(t, [raised |-> "none", value |-> save_file_except(exc[t]), db |-> db])
          /\ completed' = [completed EXCEPT ![<<c.package, c.architecture>>] = @ + 1]
          /\ lastSave' = [lastSave EXCEPT ![<<c.package, c.architecture>>] =
                             [version |-> c.version, mimetype |-> c.mimetype, data |-> c.data]]
    /\ UNCHANGED <<file_lock, call, exc, calls>>

(* A caller starts delete_file(package, architecture) *)
CallDeleteFile(t) ==
    \E p \in Packages, a \in Archs :
        Enter(t, [NoCall EXCEPT !.name = "delete_file", !.package = p, !.architecture = a,
                                !.db0 = db], "delete")

DeleteFileSwallows(t) ==
    /\ pc[t] = "delete"
    /\ LET out == delete_file(db, call[t].package, call[t].architecture)
       IN Finish(t, IF out.raised # "none"
                    THEN [raised |-> "none", value |-> "False", db |-> out.db]
                    ELSE out)
    /\ UNCHANGED <<file_lock, call, exc, calls, completed, lastSave>>

(* delete_file, line 40 *)
DeleteFile(t) ==
    /\ pc[t] = "delete"
    /\ Finish(t, delete_file(db, call[t].package, call[t].architecture))
    /\ UNCHANGED <<file_lock, call, exc, calls, completed, lastSave>>

(* A caller starts get_current_version(package, architecture) *)
CallGetCurrentVersion(t) ==
    \E p \in Packages, a \in Archs :
        Enter(t, [NoCall EXCEPT !.name = "get_current_version", !.package = p,
                                !.architecture = a, !.db0 = db], "version")

(* get_current_version, line 44 *)
GetCurrentVersion(t) ==
    /\ pc[t] = "version"
    /\ Finish(t, get_current_version(db, call[t].package, call[t].architecture))
    /\ UNCHANGED <<file_lock, call, exc, calls, completed, lastSave>>

(* A caller starts get_current_package_info(package) *)
CallGetCurrentPackageInfo(t) ==
    \E p \in Packages :
        Enter(t, [NoCall EXCEPT !.name = "get_current_package_info", !.package = p,
                                !.db0 = db], "info")

(* get_current_package_info, line 56 *)
GetCurrentPackageInfo(t) ==
    /\ pc[t] = "info"
    /\ Finish(t, get_current_package_info(db, call[t].package))
    /\ UNCHANGED <<file_lock, call, exc, calls, completed, lastSave>>

(* The caller has its result (or handles the exception) and is free again. *)
Resume(t) ==
    /\ pc[t] = "done"
    /\ pc' = [pc EXCEPT ![t] = "idle"]
    /\ call' = [call EXCEPT ![t] = NoCall]
    /\ exc' = [exc EXCEPT ![t] = "none"]
    /\ ret' = [ret EXCEPT ![t] = NoRet]
    /\ UNCHANGED <<db, file_lock, calls, completed, lastSave>>

Step(t) ==
    \/ CallSaveFile(t)
    \/ SaveFileTry(t)
    \/ SaveFileExcept(t)
    \/ CallDeleteFile(t)
    \/ DeleteFile(t)
    \/ CallGetCurrentVersion(t)
    \/ GetCurrentVersion(t)
    \/ CallGetCurrentPackageInfo(t)
    \/ GetCurrentPackageInfo(t)
    \/ Resume(t)

Next == \E t \in Callers : Step(t)

Spec == Init /\ [][Next]_vars

(* The storage used by one caller alone, which keeps running while it is   *)
(* inside save_file: a coroutine that can take its next step is eventually *)
(* scheduled.                                                              *)
SoloNext == Step(1)

LiveSpec ==
    Init /\ [][SoloNext]_vars /\ WF_vars(SaveFileTry(1)) /\ WF_vars(SaveFileExcept(1))

(* ------------------------ reading the database ------------------------ *)
(* The mad_apks rows of a key, the chunk rows of an artifact in insertion  *)
(* order, and their concatenation.                                         *)
VersionRecords(d, k) == {r \in d.mad_apks : r.usage = k[1] /\ r.arch = k[2]}

IsChunkOf(id, row) == row.filestore_id = id

ChunksOf(d, id) == SelectSeq(d.filestore_chunks, LAMBDA row : IsChunkOf(id, row))

RECURSIVE Join(_)
Join(rows) == IF rows = <<>> THEN <<>> ELSE Head(rows).data \o Join(Tail(rows))

RECURSIVE SumSizes(_)
SumSizes(rows) == IF rows = <<>> THEN 0 ELSE Head(rows).size + SumSizes(Tail(rows))

MetaKey(m) == <<m.filename[1], m.filename[2]>>

KeyOfCall(c) == <<c.package, c.architecture>>

(* The chunk rows appended to filestore_chunks since caller t's call began *)
RowsWritten(t) ==
    SubSeq(db.filestore_chunks, Len(call[t].db0.filestore_chunks) + 1, Len(db.filestore_chunks))

SaveEnded(t) == pc[t] = "done" /\ call[t].name = "save_file"

(* ------------------------------- claims -------------------------------- *)

(* C1: once at least one save_file call for a key has ended, exactly one   *)
(* mad_apks row exists for the key, its version is that of the save that   *)
(* ended last, it references the metadata row that save created, and       *)
(* get_current_version returns that version.                               *)
C1_OneCurrentVersion ==
    \A k \in Keys :
        completed[k] > 0 =>
            /\ Cardinality(VersionRecords(db, k)) = 1
            /\ \A r \in VersionRecords(db, k) :
                /\ r.version = lastSave[k].version
                /\ \E m \in db.filestore_meta :
                    /\ m.filestore_id = r.filestore_id
                    /\ m.filename = generate_filename(k[1], k[2], lastSave[k].version,
                                                      lastSave[k].mimetype)
                    /\ m.size = Len(lastSave[k].data)
                /\ get_current_version(db, k[1], k[2]) =
                       [raised |-> "none", value |-> r.version, db |-> db]

(* C2: once two save_file calls for a key have ended, the key has a single *)
(* mad_apks row, the chunks of the artifact it references, joined in       *)
(* insertion order, are the payload of the second save, and no metadata    *)
(* row or chunk of the first save's artifact is left.                      *)
C2_ReplaceKeepsOnlyNewest ==
    \A k \in Keys :
        completed[k] >= 2 =>
            /\ Cardinality(VersionRecords(db, k)) = 1
            /\ \A r \in VersionRecords(db, k) :
                /\ Join(ChunksOf(db, r.filestore_id)) = lastSave[k].data
                /\ \A m \in db.filestore_meta :
                       MetaKey(m) = k => m.filestore_id = r.filestore_id
                /\ \A i \in 1..Len(db.filestore_chunks) :
                       \/ db.filestore_chunks[i].filestore_id = r.filestore_id
                       \/ \E m \in db.filestore_meta :
                              /\ m.filestore_id = db.filestore_chunks[i].filestore_id
                              /\ MetaKey(m) # k

(* C3: when a save_file call has ended, the chunk rows it wrote, joined in *)
(* the order they were inserted, are its payload.                          *)
C3_RoundTrip ==
    \A t \in Callers :
        SaveEnded(t) => Join(RowsWritten(t)) = call[t].data

(* C4: when a save_file call has ended it has written ceil(len/C) chunk    *)
(* rows, each but the last of size C, the last of a size in (0, C], and    *)
(* the sizes sum to the length of the payload.                             *)
C4_ChunkSizing ==
    \A t \in Callers :
        SaveEnded(t) =>
            LET rows == RowsWritten(t)
                n == Len(call[t].data)
            IN /\ Len(rows) = (n + CHUNK_MAX_SIZE - 1) \div CHUNK_MAX_SIZE
               /\ \A i \in 1..Len(rows) :
                    /\ rows[i].size = Len(rows[i].data)
                    /\ i < Len(rows) => rows[i].size = CHUNK_MAX_SIZE
                    /\ i = Len(rows) => rows[i].size > 0 /\ rows[i].size <= CHUNK_MAX_SIZE
               /\ SumSizes(rows) = n

(* C5: a save_file call never ends by raising; it returns True or False,   *)
(* True only if no step raised and False if a step raised.                 *)
C5_SaveNeverRaises ==
    \A t \in Callers :
        SaveEnded(t) =>
            /\ ret[t].kind = "return"
            /\ ret[t].value \in {"True", "False"}
            /\ ret[t].value = "True" => exc[t] = "none"
            /\ exc[t] # "none" => ret[t].value = "False"

C5_Witness ==
    \E t \in Callers :
        /\ SaveEnded(t)
        /\ exc[t] = "NameError"
        /\ ret[t] = [kind |-> "return", value |-> "False"]

(* C6: a caller that is inside save_file or delete_file holds file_lock,   *)
(* and at most one caller is inside save_file or delete_file at a time.    *)
Mutating(t) == pc[t] \in {"save_try", "save_except", "delete"}

C6_MutationsSerialized ==
    /\ \A t \in Callers : Mutating(t) => file_lock.owner = t /\ file_lock.count > 0
    /\ \A t, u \in Callers : Mutating(t) /\ Mutating(u) => t = u

(* C8: a delete_file call on a key that had no mad_apks row ends by        *)
(* returning True and has left every table as it was.                      *)
C8_DeleteOfAbsentKey ==
    \A t \in Callers :
        /\ pc[t] = "done"
        /\ call[t].name = "delete_file"
        /\ VersionRecords(call[t].db0, KeyOfCall(call[t])) = {}
        => /\ ret[t] = [kind |-> "return", value |-> "True"]
           /\ db = call[t].db0

(* C10: a get_current_package_info call on a package whose mad_apks row    *)
(* references a metadata row that is gone ends by returning None and has   *)
(* removed that mad_apks row.                                              *)
Dangling(d, package) ==
    {r \in d.mad_apks :
        /\ r.usage = package
        /\ ~ \E m \in d.filestore_meta : m.filestore_id = r.filestore_id}

C10_SelfHealingLookup ==
    \A t \in Callers :
        /\ pc[t] = "done"
        /\ call[t].name = "get_current_package_info"
        /\ Dangling(call[t].db0, call[t].package) # {}
        => /\ ret[t] = [kind |-> "return", value |-> "None"]
           /\ Dangling(db, call[t].package) = {}

(* C11, as stated: in every reachable state every mad_apks row references *)
(* an existing metadata row, and the sizes of the chunk rows of that       *)
(* artifact sum to the metadata's size.                                    *)
Consistent(d) ==
    \A r \in d.mad_apks :
        \E m \in d.filestore_meta :
            /\ m.filestore_id = r.filestore_id
            /\ SumSizes(ChunksOf(d, r.filestore_id)) = m.size

FirstStepFailed(t) ==
    delete_file(call[t].db0, call[t].package, call[t].architecture).raised # "none"

C13_DeleteFailureDoesNotAbort ==
    \A t \in Callers :
        SaveEnded(t) /\ FirstStepFailed(t) =>
            \E r \in VersionRecords(db, KeyOfCall(call[t])) :
                /\ r.version = call[t].version
                /\ \E m \in db.filestore_meta :
                    /\ m.filestore_id = r.filestore_id
                    /\ m.filename = generate_filename(call[t].package, call[t].architecture,
                                                      call[t].version, call[t].mimetype)

(* C13, amended: a save_file call whose first step raised is aborted: it   *)
(* has written nothing to any table and it returns False.                  *)
C13_DeleteFailureAborts ==
    \A t \in Callers :
        /\ call[t].name = "save_file"
        /\ pc[t] \in {"save_except", "done"}
        /\ FirstStepFailed(t)
        => /\ db = call[t].db0
           /\ pc[t] = "done" => ret[t] = [kind |-> "return", value |-> "False"]

C13_Witness ==
    \E t \in Callers :
        /\ SaveEnded(t)
        /\ FirstStepFailed(t)
        /\ exc[t] # "none"
        /\ Len(call[t].data) > 0

(* C14: an exception raised inside a delete_file, get_current_version or   *)
(* get_current_package_info call leaves the call as that exception, while  *)
(* an exception raised inside save_file makes the call return False.       *)
Propagated(t, outcome) ==
    outcome.raised # "none" => ret[t] = [kind |-> "raise", value |-> outcome.raised]

C14_ErrorsPropagateExceptInSave ==
    \A t \in Callers :
        pc[t] = "done" =>
            LET c == call[t]
            IN /\ c.name = "delete_file" =>
                      Propagated(t, delete_file(c.db0, c.package, c.architecture))
               /\ c.name = "get_current_version" =>
                      Propagated(t, get_current_version(c.db0, c.package, c.architecture))
               /\ c.name = "get_current_package_info" =>
                      Propagated(t, get_current_package_info(c.db0, c.package))
               /\ c.name = "save_file" /\ exc[t] # "none" =>
                      ret[t] = [kind |-> "return", value |-> "False"]

C14_Witness ==
    \E t, u \in Callers :
        /\ pc[t] = "done" /\ call[t].name = "delete_file"
        /\ ret[t] = [kind |-> "raise", value |-> "NameError"]
        /\ SaveEnded(u) /\ exc[u] = "NameError"
        /\ ret[u] = [kind |-> "return", value |-> "False"]

(* C15: two save_file calls that differ only in retry, made on the same    *)
(* database, end the same way, and a save_file call that has reached its   *)
(* except clause never goes back to its try block.                         *)
SameButRetry(c, d) == [c EXCEPT !.retry = FALSE] = [d EXCEPT !.retry = FALSE]

C15_RetryIgnored ==
    /\ [](\A t, u \in Callers :
            SaveEnded(t) /\ SaveEnded(u) /\ SameButRetry(call[t], call[u]) =>
                ret[t] = ret[u] /\ exc[t] = exc[u])
    /\ [][\A t \in Callers : pc[t] = "save_except" => pc'[t] \in {"save_except", "done"}]_vars

C15_Witness ==
    \E t, u \in Callers :
        /\ SaveEnded(t) /\ SaveEnded(u)
        /\ SameButRetry(call[t], call[u])
        /\ call[t].retry /\ ~call[u].retry
        /\ exc[t] # "none"

(* C16: a get_current_version call that has ended while a save_file call  *)
(* for the same key was in progress has returned None or a version, and    *)
(* if it began after that save had replaced the key's mad_apks row it has  *)
(* not returned the version the key had before the save.                   *)
SaveInProgress(t) == pc[t] \in {"save_try", "save_except"}

VersionsOf(d, k) == {r.version : r \in VersionRecords(d, k)}

C16_LookupDuringSave ==
    \A t, u \in Callers :
        /\ SaveInProgress(t)
        /\ pc[u] = "done" /\ call[u].name = "get_current_version"
        /\ KeyOfCall(call[u]) = KeyOfCall(call[t])
        => LET k == KeyOfCall(call[t])
           IN /\ ret[u].kind = "return"
              /\ ret[u].value \in {"None"} \cup Versions
              /\ ( /\ VersionRecords(call[u].db0, k) # VersionRecords(call[t].db0, k)
                   /\ call[t].version \notin VersionsOf(call[t].db0, k) )
                 => ret[u].value \notin VersionsOf(call[t].db0, k)

(* C18: a save_file call, once begun, eventually ends by returning True or *)
(* False; it never waits on file_lock.                                     *)
C18_SaveReturns ==
    \A t \in Callers :
        SaveInProgress(t) ~>
            (SaveEnded(t) /\ ret[t].kind = "return" /\ ret[t].value \in {"True", "False"})

C18_Witness ==
    \E t \in Callers :
        /\ SaveEnded(t)
        /\ ret[t].kind = "return"
        /\ file_lock.owner = NoCaller

(* C19: a step of a save_file or delete_file call for key k leaves the     *)
(* mad_apks row, the metadata row and the chunks of every other key as     *)
(* they were, and every row it inserts or removes carries k or an artifact *)
(* id that k's mad_apks row references before or after the step.           *)
KeyIds(d, k) == {r.filestore_id : r \in VersionRecords(d, k)}

RowsOfKey(d, k) ==
    [apks |-> VersionRecords(d, k),
     meta |-> {m \in d.filestore_meta : m.filestore_id \in KeyIds(d, k)},
     chunks |-> SelectSeq(d.filestore_chunks, LAMBDA row : row.filestore_id \in KeyIds(d, k))]

ChunkIds(d) == {d.filestore_chunks[i].filestore_id : i \in 1..Len(d.filestore_chunks)}

Changed(A, B) == (A \ B) \cup (B \ A)

FrameOfKey(d, e, k) ==
    LET touched == KeyIds(d, k) \cup KeyIds(e, k)
    IN /\ \A other \in Keys \ {k} : RowsOfKey(e, other) = RowsOfKey(d, other)
       /\ \A r \in Changed(d.mad_apks, e.mad_apks) : <<r.usage, r.arch>> = k
       /\ \A m \in Changed(d.filestore_meta, e.filestore_meta) : m.filestore_id \in touched
       /\ \A id \in (ChunkIds(d) \cup ChunkIds(e)) \ touched : ChunksOf(e, id) = ChunksOf(d, id)

C19_OtherKeysUntouched ==
    [][\A t \in Callers :
          Mutating(t) /\ pc'[t] # pc[t] => FrameOfKey(db, db', KeyOfCall(call[t]))]_vars

C19_Witness ==
    \E t \in Callers :
        /\ pc[t] = "done"
        /\ call[t].name \in {"save_file", "delete_file"}
        /\ \E other \in Keys \ {KeyOfCall(call[t])} :
            /\ VersionRecords(db, other) # {}
            /\ RowsOfKey(db, other).chunks # <<>>

====
